---- MODULE Spec2Model ----
(***************************************************************************)
(* ys::KDSearchArray<TYPE, N> (kd_search_array.hpp): an array-backed kD    *)
(* tree built once by prepare() and queried by find(), driven by a caller  *)
(* in the manner of main.cpp.  Arrays are 0-indexed functions, as in the   *)
(* source; the output vector is a sequence.                                *)
(***************************************************************************)
EXTENDS Integers, Sequences, FiniteSets

\* ---------------------------------------------------------------- bounds
MaxM      == 5    \* largest number of points handed to prepare()
MaxSmallM == 3    \* largest array that is also queried by subtree and on kept results
MaxKeep   == 1    \* most results left in output when find() is called again
MaxSelM   == 4    \* largest index array handed to Select()

\* ------------------------------------------------------ program constants
N     == 2        \* template argument N of KDSearchArray<int, 2>
EMPTY == -1       \* ~0LU, the all-ones size_t that marks an unused slot

\* The ordinate type TYPE of the template: two values, enough for points to
\* be smaller, equal or larger on a dimension.
TYPE    == {0, 1}
Point   == [0..(N - 1) -> TYPE]
Arrays  == UNION {[0..(m - 1) -> Point] : m \in 1..MaxM}

VARIABLES
    values,     \* the caller's point array (const std::array<TYPE, N> values[M])
    tieOrder,   \* how this build's std::stable_sort orders equal keys
    tree_,      \* contents of the array tree_ points to
    treePtr,    \* the pointer tree_: "null", "live" or "freed" (dangling)
    length_,    \* member length_
    overflow,   \* slots the last build() wrote beyond the end of tree_
    output,     \* the caller's std::vector<size_t>
    status,     \* "running", "aborted", "undefined" or "destroyed"
    last,       \* the last call and what it returned
    buffer,     \* Select(): the index array being reordered
    sel         \* Select(): the arguments and position of the running call

vars == <<values, tieOrder, tree_, treePtr, length_, overflow, output,
          status, last, buffer, sel>>

kdvars  == <<values, tieOrder, tree_, treePtr, length_, overflow, output, status, last>>
selvars == <<buffer, sel>>

Range(s) == {s[i] : i \in DOMAIN s}
M        == Cardinality(DOMAIN values)

\* --------------------------------------------------------------- prepare
\* Mutation of Grow: the loop also doubles when l has reached length.
RECURSIVE GrowPast(_, _)
GrowPast(l, length) == IF l <= length THEN GrowPast(l * 2, length) ELSE l

\* while (l < length) l *= 2;   starting from l = 1
RECURSIVE Grow(_, _)
Grow(l, length) == IF l < length THEN Grow(l * 2, length) ELSE l

Capacity(length) == Grow(1, length)

\* Mutation of Comp: the comparison is turned around.
CompDescending(l, r, d) == values[l][d] >= values[r][d]

\* The comparison handed to std::stable_sort: [values, d](l, r) { ... }
Comp(l, r, d) == values[l][d] <= values[r][d]

\* One insertion of std::stable_sort.  Comp is not a strict weak ordering
\* (it holds for equal keys), so the order of equal keys is whatever the
\* library's algorithm makes of it: tieOrder fixes it for the build.
SortInsert(s, e, d) ==
    LET before == {i \in 1..Len(s) :
                      IF tieOrder = "kept" THEN Comp(s[i], e, d)
                                           ELSE ~Comp(e, s[i], d)}
        p      == Cardinality(before)
    IN  SubSeq(s, 1, p) \o <<e>> \o SubSeq(s, p + 1, Len(s))

RECURSIVE InsertionSort(_, _)
InsertionSort(s, d) ==
    IF Len(s) = 0 THEN <<>>
    ELSE SortInsert(InsertionSort(SubSeq(s, 1, Len(s) - 1), d), s[Len(s)], d)

\* std::stable_sort(buffer + from, buffer + to + 1, comp)
StableSort(buf, from, to, d) ==
    LET seg    == [i \in 1..(to + 1 - from) |-> buf[from + i - 1]]
        sorted == InsertionSort(seg, d)
    IN  [i \in DOMAIN buf |->
            IF from <= i /\ i <= to THEN sorted[i - from + 1] ELSE buf[i]]

\* size_t k = (from + to) / 2;
Median(from, to) == (from + to) \div 2

LeftChild(index)  == index * 2 + 1
RightChild(index) == index * 2 + 2

\* tree_[index] = buffer[k];  a slot at or beyond the capacity is outside
\* the allocation: the write is recorded in st.over instead.
Commit(st, index, x) ==
    IF index \in DOMAIN st.tree
    THEN [st EXCEPT !.tree[index] = x]
    ELSE [st EXCEPT !.over = @ \cup {index}]

\* build(buffer, values, index, from, to, depth), on st = [buf, tree, over]
RECURSIVE build(_, _, _, _, _)
build(st, index, from, to, depth) ==
    LET k  == Median(from, to)
        b  == IF from < to THEN StableSort(st.buf, from, to, depth % N)
                           ELSE st.buf
        s0 == Commit([st EXCEPT !.buf = b], index, b[k])
        s1 == IF from < k THEN build(s0, LeftChild(index), from, k - 1, depth + 1)
                          ELSE s0
    IN  IF k < to THEN build(s1, RightChild(index), k + 1, to, depth + 1)
                  ELSE s1

\* std::fill(tree_, tree_ + l, ~0LU); buffer[i] = i; build(buffer, values, 0, 0, length - 1, 0)
Built(length) ==
    build([buf  |-> [i \in 0..(length - 1) |-> i],
           tree |-> [i \in 0..(Capacity(length) - 1) |-> EMPTY],
           over |-> {}],
          0, 0, length - 1, 0)

\* Mutation of NewLength: the capacity is added to the old length.
NewLengthAdded(l) == length_ + l

\* length_ = l;
NewLength(l) == l

\* What is remembered of a call: its name, whether it returned normally (for
\* prepare, returned true), what went wrong in it, whether prepare found a
\* tree to replace, the size of output when find was entered, and the slots
\* whose point find read.
NoCall == [op |-> "none", ret |-> TRUE, fault |-> "none", rebuilt |-> FALSE,
           start |-> 0, visited |-> <<>>]

Call(op, ret, fault) == [NoCall EXCEPT !.op = op, !.ret = ret, !.fault = fault]

\* prepare(values, length) with the outcome of its two allocations:
\* alloc = "ok", "tree" (new size_t[l] throws) or "buffer" (new size_t[length] throws)
Prepare(alloc) ==
    /\ status = "running"
    /\ IF treePtr = "freed"
       THEN \* if (tree_) delete [] tree_;  on an array already released
            /\ status' = "undefined"
            /\ last' = Call("prepare", FALSE, "double_free")
            /\ UNCHANGED <<tree_, treePtr, length_, overflow>>
       ELSE LET had == treePtr = "live"
            IN  CASE alloc = "tree" ->
                      \* tree_ was set to 0 and the first new threw
                      /\ treePtr' = "null"
                      /\ tree_' = <<>>
                      /\ last' = [Call("prepare", FALSE, "none") EXCEPT !.rebuilt = had]
                      /\ UNCHANGED <<length_, overflow, status>>
                  [] alloc = "buffer" ->
                      \* if (tree_) delete [] tree_;  return false;  tree_ keeps its value
                      /\ treePtr' = "freed"
                      /\ tree_' = <<>>
                      /\ last' = [Call("prepare", FALSE, "none") EXCEPT !.rebuilt = had]
                      /\ UNCHANGED <<length_, overflow, status>>
                  [] OTHER ->
                      LET b == Built(M)
                      IN  /\ treePtr' = "live"
                          /\ tree_' = b.tree
                          /\ overflow' = b.over
                          /\ length_' = NewLength(Capacity(M))
                          /\ IF b.over = {}
                             THEN /\ status' = "running"
                                  /\ last' = [Call("prepare", TRUE, "none") EXCEPT !.rebuilt = had]
                             ELSE \* a write past the end of tree_: the run may go on or not
                                  \E s \in {"running", "undefined"} :
                                     /\ status' = s
                                     /\ last' = [Call("prepare", s = "running", "heap_overflow")
                                                    EXCEPT !.rebuilt = had]
    /\ UNCHANGED <<values, tieOrder, output, selvars>>

\* ------------------------------------------------------------------ find
\* for (i = 0; i < N && f; ++i) f = (from[i] <= values[x][i]) & (values[x][i] <= to[i]);
Inside(x, from, to) ==
    \A i \in 0..(N - 1) : from[i] <= values[x][i] /\ values[x][i] <= to[i]

\* Mutation of GoLeft: the test for the unused-slot mark is left out.
GoLeftUnchecked(x, k, d, from) == k < length_ /\ from[d] <= values[x][d]

\* if (k < length_ && tree_[k] < ~0LU && from[d] <= values[x][d])
GoLeft(x, k, d, from) == k < length_ /\ tree_[k] # EMPTY /\ from[d] <= values[x][d]

\* if (k < length_ && tree_[k] < ~0LU && values[x][d] <= to[d])
GoRight(x, k, d, to) == k < length_ /\ tree_[k] # EMPTY /\ values[x][d] <= to[d]

\* Mutation of Report: the index is put in front.
ReportFirst(points, x) == <<x>> \o points

\* points.push_back(x);
Report(points, x) == Append(points, x)

\* assert(tree_[index] < ~0LU), for a slot of the array
Occupied(index) == index \in DOMAIN tree_ /\ tree_[index] # EMPTY

\* find(values, from, to, points, index, depth) on r = [points, visited, fault]:
\* points is the vector, visited the slots whose point was read, in order,
\* fault whether a call was entered on a slot that holds no point.
RECURSIVE find(_, _, _, _, _)
find(from, to, r, index, depth) ==
    IF ~Occupied(index)
    THEN [r EXCEPT !.fault = TRUE]
    ELSE LET x  == tree_[index]
             r0 == [r EXCEPT !.points  = IF Inside(x, from, to) THEN Report(@, x) ELSE @,
                             !.visited = Append(@, index)]
             k  == LeftChild(index)
             d  == depth % N
             r1 == IF GoLeft(x, k, d, from) THEN find(from, to, r0, k, depth + 1) ELSE r0
         IN  IF GoRight(x, k + 1, d, to) THEN find(from, to, r1, k + 1, depth + 1) ELSE r1

Found(from, to, index, depth) ==
    find(from, to, [points |-> output, visited |-> <<>>, fault |-> FALSE], index, depth)

\* A failed assert aborts; compiled with NDEBUG the call runs on with its
\* precondition broken.
Violation == {"aborted", "undefined"}

FindCall == [NoCall EXCEPT !.op = "find", !.start = Len(output)]

\* kdt.find(values, from, to, output, index, depth)
Find(from, to, index, depth) ==
    /\ status = "running"
    /\ IF treePtr = "null" \/ length_ = 0
       THEN \* assert(tree_); assert(0 < length_);
            /\ status' \in Violation
            /\ last' = [FindCall EXCEPT !.ret = FALSE, !.fault = "assert"]
            /\ UNCHANGED output
       ELSE IF treePtr = "freed"
       THEN \* tree_[index] reads an array that was released
            /\ status' = "undefined"
            /\ last' = [FindCall EXCEPT !.ret = FALSE, !.fault = "use_after_free"]
            /\ UNCHANGED output
       ELSE LET r == Found(from, to, index, depth)
            IN  IF r.fault
                THEN \* assert(tree_[index] < ~0LU);
                     /\ status' \in Violation
                     /\ last' = [FindCall EXCEPT !.ret = FALSE, !.fault = "assert",
                                                 !.visited = r.visited]
                     /\ UNCHANGED output
                ELSE /\ output' = r.points
                     /\ last' = [FindCall EXCEPT !.visited = r.visited]
                     /\ UNCHANGED status
    /\ UNCHANGED <<values, tieOrder, tree_, treePtr, length_, overflow, selvars>>

\* output.clear();  (main.cpp)
Clear ==
    /\ status = "running"
    /\ output' = <<>>
    /\ last' = Call("clear", TRUE, "none")
    /\ UNCHANGED <<values, tieOrder, tree_, treePtr, length_, overflow, status, selvars>>

\* ~KDSearchArray():  if (tree_) delete [] tree_;
Destroy ==
    /\ status = "running"
    /\ IF treePtr = "freed"
       THEN /\ status' = "undefined"
            /\ last' = Call("destroy", FALSE, "double_free")
            /\ UNCHANGED treePtr
       ELSE /\ status' = "destroyed"
            /\ last' = Call("destroy", TRUE, "none")
            /\ treePtr' = IF treePtr = "live" THEN "freed" ELSE treePtr
    /\ UNCHANGED <<values, tieOrder, tree_, length_, overflow, output, selvars>>

\* KDSearchArray(): tree_(0), length_(0), and the caller's data
Init ==
    /\ values \in Arrays
    /\ tieOrder \in {"kept", "reversed"}
    /\ tree_ = <<>>
    /\ treePtr = "null"
    /\ length_ = 0
    /\ overflow = {}
    /\ output = <<>>
    /\ status = "running"
    /\ last = NoCall
    /\ buffer = <<>>
    /\ sel = [pc |-> "idle", from |-> 0, to |-> 0, target |-> 0, depth |-> 0, lo |-> 0, hi |-> 0]

\* ---------------------------------------------------------------- caller
\* The caller follows main.cpp: it builds, and then queries, reads the
\* results and clears them, and leaves; every call but output.clear() finds
\* output cleared.  Beyond main.cpp it may build again, allocations may fail,
\* and on arrays of at most MaxSmallM points it may query again on top of at
\* most MaxKeep results and may query a subtree by naming its slot.
Alloc == {"ok", "tree", "buffer"}

Cleared == output = <<>> /\ last.op # "find"

\* The query boxes the caller asks for.  Without a tree find() stops at its
\* first asserts and reads neither bound, so one box stands for all.
Origin == [i \in 0..(N - 1) |-> 0]
Keys   == IF treePtr = "live" THEN Point \X Point ELSE {<<Origin, Origin>>}

\* if (kdt.prepare(values, M))
MainPrepare == Cleared /\ \E alloc \in Alloc : Prepare(alloc)

\* kdt.find(values, keys[i][0], keys[i][1], output);
MainFind ==
    /\ Cleared \/ (M <= MaxSmallM /\ Len(output) <= MaxKeep)
    /\ \E key \in Keys : Find(key[1], key[2], 0, 0)

\* find with its arguments index and depth given; a slot at or beyond
\* length_ is represented by length_ itself
SubtreeFind ==
    /\ Cleared
    /\ treePtr = "live"
    /\ M <= MaxSmallM
    /\ \E key \in Keys, index \in 1..length_, depth \in 0..(N - 1) :
          Find(key[1], key[2], index, depth)

\* output.clear();
MainClear == last.op = "find" /\ Clear

\* return 0;  runs the destructor of kdt
MainExit == Cleared /\ Destroy

Next ==
    \/ MainPrepare
    \/ MainFind
    \/ SubtreeFind
    \/ MainClear
    \/ MainExit

Spec == Init /\ [][Next]_vars

\* ---------------------------------------------------------------- Select
\* std::swap(buffer[a], buffer[b])
Swap(buf, a, b) == [buf EXCEPT ![a] = buf[b], ![b] = buf[a]]

\* Mutation of KeepsPlace: the comparison is turned around.
KeepsPlaceAbove(buf, from, i, depth) == values[buf[from]][depth] >= values[buf[i]][depth]

\* if (values[buffer[from]][depth] <= values[buffer[i]][depth]) continue;
KeepsPlace(buf, from, i, depth) == values[buf[from]][depth] <= values[buf[i]][depth]

\* for (size_t i(from+1); i <= to; ++i) { ...; std::swap(buffer[j], buffer[i]); ++j; }
RECURSIVE Sweep(_, _, _, _, _, _)
Sweep(buf, j, i, from, to, depth) ==
    IF i > to THEN [buf |-> buf, j |-> j]
    ELSE IF KeepsPlace(buf, from, i, depth)
         THEN Sweep(buf, j, i + 1, from, to, depth)
         ELSE Sweep(Swap(buf, j, i), j + 1, i + 1, from, to, depth)

\* The body of Select from the choice of k to the pivot's final swap.
Partition(buf, k, from, to, depth) ==
    LET s == Sweep(Swap(buf, from, k), from + 1, from + 1, from, to, depth)
    IN  [buf |-> IF from # s.j - 1 THEN Swap(s.buf, from, s.j - 1) ELSE s.buf,
         j   |-> s.j]

\* One invocation of Select(buffer, values, target, from, to, depth, mt);
\* k is the value of from + (*mt)() % (to + 1 - from).  The recursive call
\* is the last thing an invocation does, so it continues in sel.
Select(k) ==
    /\ sel.pc = "run"
    /\ IF sel.from = sel.to
       THEN /\ sel' = [sel EXCEPT !.pc = "done"]
            /\ UNCHANGED buffer
       ELSE LET p == Partition(buffer, k, sel.from, sel.to, sel.depth)
            IN  /\ buffer' = p.buf
                /\ sel' = IF sel.target = p.j - 1 THEN [sel EXCEPT !.pc = "done"]
                          ELSE IF sel.target + 1 < p.j THEN [sel EXCEPT !.to = p.j - 2]
                          ELSE [sel EXCEPT !.from = p.j]
    /\ UNCHANGED kdvars

SelectCall == \E k \in sel.from..sel.to : Select(k)

\* A first call of Select on the index array of prepare(), buffer[i] = i.
\* Select reads the ordinate depth of a point and no other, so the other
\* ordinates are left at 0.
InitSelect ==
    /\ tieOrder = "kept"
    /\ tree_ = <<>>
    /\ treePtr = "null"
    /\ length_ = 0
    /\ overflow = {}
    /\ output = <<>>
    /\ status = "running"
    /\ last = NoCall
    /\ \E m \in 1..MaxSelM, depth \in 0..(N - 1) :
          \E keys \in [0..(m - 1) -> TYPE], from \in 0..(m - 1), to \in 0..(m - 1),
             target \in 0..(m - 1) :
             /\ from <= target
             /\ target <= to
             /\ values = [i \in 0..(m - 1) |->
                            [e \in 0..(N - 1) |-> IF e = depth THEN keys[i] ELSE 0]]
             /\ buffer = [i \in 0..(m - 1) |-> i]
             /\ sel = [pc |-> "run", from |-> from, to |-> to, target |-> target,
                       depth |-> depth, lo |-> from, hi |-> to]

NextSelect == SelectCall

SpecSelect == InitSelect /\ [][NextSelect]_vars /\ WF_vars(NextSelect)

\* ---------------------------------------------------------------- claims
Ready == treePtr = "live" /\ status = "running"

\* The indices a linear scan of values finds in the box [from, to].
LinearScan(from, to) ==
    {i \in DOMAIN values : \A k \in 0..(N - 1) : from[k] <= values[i][k] /\ values[i][k] <= to[k]}

Lowest  == [i \in 0..(N - 1) |-> CHOOSE v \in TYPE : \A w \in TYPE : v <= w]
Highest == [i \in 0..(N - 1) |-> CHOOSE v \in TYPE : \A w \in TYPE : w <= v]

IsPrefix(s, t) == Len(s) <= Len(t) /\ \A i \in 1..Len(s) : s[i] = t[i]

\* Depth of a slot: the root is at depth 0, the children of i are 2i+1, 2i+2.
RECURSIVE Depth(_)
Depth(i) == IF i = 0 THEN 0 ELSE 1 + Depth((i - 1) \div 2)

\* Slot j lies in the subtree rooted at slot r.
RECURSIVE Under(_, _)
Under(j, r) == j = r \/ (j > r /\ Under((j - 1) \div 2, r))

\* C1: after a successful prepare, a find at the root (index 0, depth 0) on
\* an empty output returns, for every query box, exactly the set of indices
\* that a linear scan of the points finds in the box.
C1_FindEqualsLinearScan ==
    [][\A key \in Point \X Point :
          (Ready /\ output = <<>> /\ Find(key[1], key[2], 0, 0) /\ status' = "running")
             => Range(output') = LinearScan(key[1], key[2])]_vars

\* C2: after a successful prepare, a find at the root with a box that covers
\* the whole range of every dimension appends every index 0..M-1 exactly
\* once: none is missing and none is appended twice.
C2_FullBoxReportsEachOnce ==
    [][(Ready /\ output = <<>> /\ Find(Lowest, Highest, 0, 0) /\ status' = "running")
          => (Len(output') = M /\ Range(output') = DOMAIN values)]_vars

\* C3: a prepare that returns false because an allocation failed leaves the
\* structure unset: the pointer tree_ is null, so no released array stays
\* reachable through it.
C3_FailedPrepareLeavesUnset ==
    (last.op = "prepare" /\ ~last.ret /\ last.fault = "none") => treePtr = "null"

\* C4: after a successful prepare every point stored under the left child of
\* an occupied slot at depth d is <= the slot's point on dimension d mod N,
\* and every point stored under its right child is >= it.
C4_KdProperty ==
    Ready =>
       \A i \in DOMAIN tree_, j \in DOMAIN tree_ :
          (tree_[i] # EMPTY /\ tree_[j] # EMPTY) =>
             LET d == Depth(i) % N
             IN  /\ Under(j, LeftChild(i))  => values[tree_[j]][d] <= values[tree_[i]][d]
                 /\ Under(j, RightChild(i)) => values[tree_[j]][d] >= values[tree_[i]][d]

C4_Witness ==
    /\ Ready
    /\ \E i \in DOMAIN tree_ \ {0}, j \in DOMAIN tree_ :
          /\ tree_[i] # EMPTY /\ tree_[j] # EMPTY
          /\ Under(j, LeftChild(i)) \/ Under(j, RightChild(i))
          /\ values[tree_[j]][Depth(i) % N] # values[tree_[i]][Depth(i) % N]

\* C5: a prepare on a structure that an earlier successful prepare built from
\* the same points leaves every slot of the tree array and the recorded
\* length as they were.
C5_RebuildIsIdempotent ==
    [][(Ready /\ last'.op = "prepare" /\ last'.ret /\ status' = "running")
          => (tree_' = tree_ /\ length_' = length_)]_vars

C5_Witness ==
    Ready /\ last.op = "prepare" /\ last.ret /\ last.rebuilt /\ M >= 3

\* C6: a find on a built structure changes only the output: the tree array,
\* its length and the points stay as they were, and what output held before
\* the call is a prefix of what it holds afterwards.
C6_FindOnlyAppends ==
    [][(Ready /\ last'.op = "find" /\ status' = "running")
          => /\ tree_' = tree_ /\ treePtr' = treePtr /\ length_' = length_
             /\ values' = values
             /\ IsPrefix(output, output')]_vars

C6_Witness ==
    Ready /\ last.op = "find" /\ last.start > 0 /\ Len(output) > last.start

\* C7: after a successful prepare of M points the tree array has exactly
\* length_ slots, and length_ is the smallest power of two >= M.
C7_CapacityIsNextPowerOfTwo ==
    Ready =>
       /\ DOMAIN tree_ = 0..(length_ - 1)
       /\ \E e \in 0..M : length_ = 2 ^ e
       /\ length_ >= M
       /\ length_ = 1 \/ length_ \div 2 < M

C7_Witness == Ready /\ M = 3 /\ length_ = 4

\* C8: every slot that build commits a point index to lies inside the tree
\* array: no write lands at or beyond its capacity.
C8_BuildWritesInsideTree == last.op = "prepare" => overflow = {}

\* C9: Select ends, whatever pivots are drawn, and when it has returned
\* buffer[lo..hi] is a permutation of what it was, the entries outside are
\* untouched, every entry before target is <= buffer[target] on the
\* dimension and every entry after it is >= buffer[target].
SelectPost ==
    LET key(i) == values[buffer[i]][sel.depth]
    IN  /\ \A i \in DOMAIN buffer : (i < sel.lo \/ sel.hi < i) => buffer[i] = i
        /\ {buffer[i] : i \in sel.lo..sel.hi} = sel.lo..sel.hi
        /\ \A i \in sel.lo..(sel.target - 1) : key(i) <= key(sel.target)
        /\ \A i \in (sel.target + 1)..sel.hi : key(i) >= key(sel.target)

C9_SelectPartitions ==
    /\ [](sel.pc = "done" => SelectPost)
    /\ <>(sel.pc = "done")

C9_Witness ==
    /\ sel.pc = "done"
    /\ sel.hi - sel.lo >= 2
    /\ sel.lo < sel.target /\ sel.target < sel.hi
    /\ \E i \in DOMAIN buffer : buffer[i] # i

====
